---------------------------- MODULE Spec2Model ----------------------------
(***************************************************************************)
(* A model of the cron scheduler (src/server/scheduler.ts), of the         *)
(* in-process event bus (src/server/pubsub.ts) and of the engine          *)
(* (runPipeline of engine.ts) of the pipeline runner.                      *)
(*                                                                         *)
(* The server is one JavaScript event loop: a callback runs to its next   *)
(* await without interleaving.  Scheduler.tick has one await              *)
(* (listPipelines), so a tick is two pieces: the call (captures `now`)    *)
(* and the synchronous loop over the listed pipelines.  The loop is       *)
(* modelled one iteration per step; while it runs no other callback of    *)
(* the process is enabled.                                                 *)
(*                                                                         *)
(* Time is Date.now() in milliseconds.                                     *)
(***************************************************************************)
EXTENDS Integers, Sequences, FiniteSets, TLC

VARIABLES
    clock,       \* Date.now(), ms
    intervalId,  \* Scheduler.intervalId: 0 is null, else a timer id
    timers,      \* setInterval timers: timers[id] = [due, active]
    awaiting,    \* the calls of tick() awaiting listPipelines(): the `now` of each
    running,     \* <<>> or <<[now, p, first, sawBad]>>: the loop of tick() in progress
    tickRejected,\* whether the promise of some tick() rejected
    lastChecks,  \* the keys of Scheduler.lastChecks in Map iteration order
    runs,        \* every runPipeline(p.id) promise the scheduler created
    settled,     \* how many of those promises have settled
    listeners,   \* PubSub.listeners: the array of subscribed listeners
    unsubs,      \* the closures subscribe() returned, in call order: [l, called]
    pub,         \* the last call of publish: [event, snapshot, i, st]
    delivered,   \* the calls l(event) that call of publish made, in order
    published,   \* how many publish calls were made
    found,       \* runPipeline: whether loadPipeline(id) returned a pipeline
    pipeline,    \* runPipeline: pipeline.steps of the pipeline it loaded
    pc,          \* runPipeline: where the call is (idle, loadModule, run, returned, thrown)
    stepNo,      \* runPipeline: the index in pipeline.steps of the step of the loop
    stepStatus,  \* per step: pending, loading, running, succeeded or failed
    invoked,     \* the indices of the steps whose mod.run was called
    results,     \* ctx.results: step id -> result
    written,     \* the keys assigned in ctx.results, in the order of the assignments
    error,       \* the Error runPipeline threw, NoError if none
    workDir,     \* ctx.workDir: the working directory of the run, "" before ctx exists
    dirs,        \* the directories that exist on the disk
    calls,       \* per caller of runPipeline: the state of its call, when calls overlap
    heap,        \* the ctx.results objects those calls created
    aborted,     \* ctx.signal.aborted: the cancellation token of the run of the modules
    http,        \* modules/http.ts: the call of run
    queue,       \* modules/queue.ts: the call of run
    msNow,       \* Date.now() as the ssh steps of a stage read it, ms
    files,       \* the key files in ctx.workDir: path -> the step whose key the file holds
    ssh,         \* modules/ssh.ts: per ssh step of the stage, the call of run
    readyState,  \* websocket.ts: per socket, WebSocket.readyState
    handled,     \* per socket: the events (open, close, error) whose handler has run
    wsClients,   \* wsClients, in the iteration order of the Set
    wsTimers,    \* the setInterval timers of websocket.ts: wsTimers[id] = [kind, socket, active]
    heartbeatIntervals,    \* heartbeatIntervals: socket -> timer id, 0 for no entry
    systemMetricsInterval, \* systemMetricsInterval: 0 is null, else a timer id
    metricsPending,        \* calls of broadcastSystemMetrics awaiting getSystemMetrics()
    relayed,     \* the last event the relay listener was called with, and its sends
    wsPublished, \* how many events were published to the relay
    items,       \* Orchestrator: the StepItem list of the pipeline given to execute
    plan,        \* Orchestrator: the ExecutionPlan, a sequence of stages of steps
    runState,    \* Orchestrator: Pending, Running, Success, Failed or Cancelled
    cancelToken, \* Orchestrator: whether the cancellation token of the run is signalled
    execError,   \* Orchestrator: the error execute failed with before Running
    stageNo,     \* Orchestrator: the number of the stage dispatched last
    stepState,   \* Orchestrator: per stage and step: pending, running, succeeded, failed
    stepRecords, \* Persistence: per stage and step: none, running, success, fail
    runRecord,   \* Persistence: the run record: none, running, success, fail, cancelled
    finishCalls, \* Persistence: how many times finishRun was called for the run
    ctxResults,  \* RunContext.results: step name -> result
    events       \* the events the Orchestrator published, in order

schedVars == <<clock, intervalId, timers, awaiting, running, tickRejected, lastChecks, runs, settled>>
pubsubVars == <<listeners, unsubs, pub, delivered, published>>
engineVars == <<found, pipeline, pc, stepNo, stepStatus, invoked, results, written, error,
                workDir, dirs>>
concVars == <<calls, heap>>
moduleVars == <<aborted, http, queue, msNow, files, ssh>>
relayVars == <<readyState, handled, wsClients, wsTimers, heartbeatIntervals,
               systemMetricsInterval, metricsPending, relayed, wsPublished>>
planVars == <<items, plan, runState, cancelToken, execError, stageNo, stepState, stepRecords,
              runRecord, finishCalls, ctxResults, events>>
vars == <<clock, intervalId, timers, awaiting, running, tickRejected, lastChecks, runs, settled,
          listeners, unsubs, pub, delivered, published,
          found, pipeline, pc, stepNo, stepStatus, invoked, results, written, error, workDir, dirs,
          calls, heap,
          aborted, http, queue, msNow, files, ssh,
          readyState, handled, wsClients, wsTimers, heartbeatIntervals,
          systemMetricsInterval, metricsPending, relayed, wsPublished,
          items, plan, runState, cancelToken, execError, stageNo, stepState, stepRecords,
          runRecord, finishCalls, ctxResults, events>>

--------------------------------------------------------------------------
(* Bounds of the model *)

\* the clock advances in steps of ClockStep ms, MaxClockSteps times
ClockStep == 10000
MaxClockSteps == 7
\* pipeline files in ./pipelines in the general specification
MaxPipelines == 3
\* pipeline files in the specification that fills the trigger-key map
ManyPipelines == 101
\* runPipeline promises that settle
MaxSettled == 1
\* listener functions, and entries of PubSub.listeners
MaxListeners == 2
\* calls of PubSub.publish
MaxPublishes == 2
\* calls of PubSub.subscribe
MaxSubscribes == 3
\* steps of a pipeline given to runPipeline
MaxSteps == 2
\* steps, over all its items, of a pipeline given to the Orchestrator
MaxPlanSteps == 3
\* steps of a pipeline run by one of two overlapping calls of runPipeline
MaxConcSteps == 1
\* calls of Scheduler.start
MaxStarts == 2
\* milliseconds that pass while the ssh steps of a stage run
MaxMs == 1
\* WebSocket connections
MaxSockets == 2
\* events published to the WebSocket relay
MaxRelayed == 1
\* calls of broadcastSystemMetrics awaiting the metrics at one time
MaxBroadcasts == 1

(* Program constants *)

\* setInterval(() => this.tick(), 60000)
TickInterval == 60000
\* if (diff < 70000 && diff >= 0)
TriggerWindow == 70000
\* if (this.lastChecks.size > 100)
MaxKeys == 100

--------------------------------------------------------------------------
(* Pipeline definitions, as listPipelines() returns them *)

\* p.schedule: absent/empty, an expression cron-parser rejects, every minute,
\* every second minute
NoSchedule == ""
BadSchedule == "not a cron expression"
Schedules == {NoSchedule, BadSchedule, "* * * * *", "*/2 * * * *"}

\* the period of a valid expression, ms; its instants are the multiples of the
\* period (minute boundaries are multiples of 60000 in epoch ms)
CronPeriod(s) == IF s = "* * * * *" THEN 60000 ELSE 120000

\* parser.parseExpression(s) throws
ParseThrows(s) == s = BadSchedule

\* interval.prev().toDate().getTime() for an expression parsed at time t: the
\* most recent instant of the schedule at or before t
PrevDate(s, t) == (t \div CronPeriod(s)) * CronPeriod(s)

Pipeline == [id : 1..MaxPipelines, schedule : Schedules, schedulePaused : BOOLEAN]

\* The list listPipelines() resolved with is read front to back by the loop of
\* tick and by nothing else, so the model draws each element when the loop
\* reaches it.  File names are unique and so are ids: the elements are drawn
\* with increasing ids.  NoPipeline stands before the first element.
NoPipeline == [id |-> 0, schedule |-> NoSchedule, schedulePaused |-> FALSE]

\* the i-th pipeline of a directory of ManyPipelines pipelines that share one
\* schedule
ManyPipeline(i) == [id |-> i, schedule |-> "*/2 * * * *", schedulePaused |-> FALSE]

--------------------------------------------------------------------------
(* Scheduler.lastChecks *)

\* const key = `${p.id}-${prevDate.getTime()}`: the text after the last "-" is
\* the instant (digits only, instants are >= 0), the text before it the id, so
\* two keys are equal exactly when id and instant are; a key is kept as the pair.
\* The value stored under the key, Date.now(), is never read and is left out.
Key(id, instant) == [id |-> id, instant |-> instant]

\* this.lastChecks.has(key)
Has(lc, key) == \E k \in DOMAIN lc : lc[k] = key

\* this.lastChecks.set(key, Date.now()) for a key the map does not hold: a new
\* entry at the end of the iteration order
MapSet(lc, key) == Append(lc, key)

\* faulty variants of ClearOld: the cap tested one too high; the newest key deleted
\* (keys[keys.length - 1])
ClearOldLate(lc) == IF Len(lc) > MaxKeys + 1 THEN Tail(lc) ELSE lc

ClearNewest(lc) == IF Len(lc) > MaxKeys THEN SubSeq(lc, 1, Len(lc) - 1) ELSE lc

\* if (this.lastChecks.size > 100) { keys = Array.from(keys()); delete(keys[0]) }
ClearOld(lc) == IF Len(lc) > MaxKeys THEN Tail(lc) ELSE lc

\* faulty variant of Launch: await runPipeline(p.id), the loop goes on when the run
\* has ended
LaunchAwaited(id, instant) == [id |-> id, instant |-> instant, status |-> "resolved"]

\* runPipeline(p.id).catch(...): the promise is created and not awaited
Launch(id, instant) == [id |-> id, instant |-> instant, status |-> "pending"]

\* faulty variant of Due: diff <= 70000
DueInclusive(diff) == diff <= TriggerWindow /\ diff >= 0

\* if (diff < 70000 && diff >= 0)
Due(diff) == diff < TriggerWindow /\ diff >= 0

\* if (!p.schedule) continue
Skipped(p) == p.schedule = NoSchedule

\* faulty variant of Caught: no try around the loop body, the exception leaves tick
Uncaught(lc) == [lc |-> lc, launched |-> <<>>, threw |-> TRUE]

\* try { ... } catch (e) { console.error(...) } around the loop body: an
\* exception of the body never leaves the iteration
Caught(lc) == [lc |-> lc, launched |-> <<>>, threw |-> FALSE]

\* One iteration of the for loop of tick for pipeline p, with `now` the time
\* tick was called at and prev the instant cron-parser returned.  The result:
\* the map, the promises created, and whether an exception left the loop body.
Evaluate(p, now, prev, lc) ==
    IF Skipped(p)
    THEN [lc |-> lc, launched |-> <<>>, threw |-> FALSE]
    ELSE IF ParseThrows(p.schedule)
    THEN Caught(lc)
    ELSE IF Due(now - prev) /\ ~Has(lc, Key(p.id, prev))
    THEN [lc |-> ClearOld(MapSet(lc, Key(p.id, prev))),
          launched |-> <<Launch(p.id, prev)>>,
          threw |-> FALSE]
    ELSE [lc |-> lc, launched |-> <<>>, threw |-> FALSE]

\* runPipeline before it threw anything, and ctx.results = {}
NoError == [step |-> "", message |-> ""]
NoResults == [k \in {} |-> 0]

\* Deno.cwd(): the directory the server was started in
Cwd == "cwd"

\* the callers of runPipeline: Scheduler.tick and POST /api/run/:id
Callers == {"scheduler", "api"}

\* a call of runPipeline that was not made yet; ctx is the index in heap of
\* the ctx.results of the call
IdleCall ==
    [found |-> FALSE, pipeline |-> <<>>, pc |-> "idle", stepNo |-> 0, stepStatus |-> <<>>,
     error |-> NoError, ctx |-> 0]

\* throw new Error("Pipeline stopped by user")
Stopped == "Pipeline stopped by user"

\* a call of run of modules/http.ts and of modules/queue.ts that was not made yet
IdleHttp ==
    [pc |-> "idle", method |-> "", body |-> "", contentType |-> "", text |-> "",
     result |-> "", cause |-> "", abortedThen |-> FALSE, error |-> ""]
IdleQueue == [pc |-> "idle", cause |-> "", abortedThen |-> FALSE, error |-> ""]

\* the ssh steps of one parallel stage; a call of run of modules/ssh.ts that
\* was not made yet
SshSteps == {1, 2}
IdleSsh ==
    [pc |-> "idle", op |-> "", cmd |-> FALSE, keyPath |-> "", wrote |-> FALSE,
     killed |-> FALSE, timedOut |-> FALSE, listening |-> FALSE, timer |-> FALSE,
     abortedThen |-> FALSE, pending |-> "", error |-> ""]
NoFiles == [path \in {} |-> 0]

\* the WebSocket connections, and the relay listener before its first call
Sockets == 1..MaxSockets
NotRelayed ==
    [event |-> 0, open |-> {}, notOpen |-> {}, sent |-> <<>>, threw |-> {},
     propagated |-> FALSE]

--------------------------------------------------------------------------
(* The event loop is free: no synchronous code of the process is running *)
Idle == running = <<>> /\ pub.st # "iterating"

Init ==
    /\ clock = 0
    /\ intervalId = 0
    /\ timers = <<>>
    /\ awaiting = <<>>
    /\ running = <<>>
    /\ tickRejected = FALSE
    /\ lastChecks = <<>>
    /\ runs = <<>>
    /\ settled = 0
    /\ listeners = <<>>
    /\ unsubs = <<>>
    /\ pub = [event |-> "none", snapshot |-> <<>>, i |-> 1, st |-> "idle"]
    /\ delivered = <<>>
    /\ published = 0
    /\ found = FALSE
    /\ pipeline = <<>>
    /\ pc = "idle"
    /\ stepNo = 0
    /\ stepStatus = <<>>
    /\ invoked = {}
    /\ results = NoResults
    /\ written = <<>>
    /\ error = NoError
    /\ workDir = ""
    /\ dirs = {Cwd}
    /\ calls = [r \in Callers |-> IdleCall]
    /\ heap = <<>>
    /\ aborted = FALSE
    /\ http = IdleHttp
    /\ queue = IdleQueue
    /\ msNow = 0
    /\ files = NoFiles
    /\ ssh = [i \in SshSteps |-> IdleSsh]
    /\ readyState = [s \in Sockets |-> "NONE"]
    /\ handled = [s \in Sockets |-> {}]
    /\ wsClients = <<>>
    /\ wsTimers = <<>>
    /\ heartbeatIntervals = [s \in Sockets |-> 0]
    /\ systemMetricsInterval = 0
    /\ metricsPending = 0
    /\ relayed = NotRelayed
    /\ wsPublished = 0
    /\ items = <<>>
    /\ plan = <<>>
    /\ runState = "Pending"
    /\ cancelToken = FALSE
    /\ execError = "none"
    /\ stageNo = 0
    /\ stepState = <<>>
    /\ stepRecords = <<>>
    /\ runRecord = "none"
    /\ finishCalls = 0
    /\ ctxResults = NoResults
    /\ events = <<>>

\* async tick(): const now = new Date(); then the await of listPipelines()
TickCall(aw) == Append(aw, clock)

\* start(): this.tick(); this.intervalId = setInterval(..., 60000).  The
\* server calls it once, when it boots (main.ts: new Scheduler(), start()).
Start ==
    /\ Idle
    /\ timers = <<>>
    /\ awaiting' = TickCall(awaiting)
    /\ timers' = Append(timers, [due |-> clock + TickInterval, active |-> TRUE])
    /\ intervalId' = Len(timers) + 1
    /\ UNCHANGED <<clock, running, tickRejected, lastChecks, runs, settled>>
    /\ UNCHANGED <<pubsubVars, engineVars, planVars, concVars, moduleVars, relayVars>>

\* stop(): if (this.intervalId) clearInterval(this.intervalId).  Nothing in
\* the server calls it; it is a step of StopSpec only.
Stop ==
    /\ Idle
    /\ intervalId # 0
    /\ timers' = [timers EXCEPT ![intervalId].active = FALSE]
    /\ UNCHANGED <<clock, intervalId, awaiting, running, tickRejected, lastChecks, runs, settled>>
    /\ UNCHANGED <<pubsubVars, engineVars, planVars, concVars, moduleVars, relayVars>>

\* the callback of setInterval: () => this.tick()
TimerFire ==
    /\ Idle
    /\ \E id \in DOMAIN timers :
        /\ timers[id].active
        /\ timers[id].due <= clock
        /\ timers' = [timers EXCEPT ![id].due = clock + TickInterval]
    /\ awaiting' = TickCall(awaiting)
    /\ UNCHANGED <<clock, intervalId, running, tickRejected, lastChecks, runs, settled>>
    /\ UNCHANGED <<pubsubVars, engineVars, planVars, concVars, moduleVars, relayVars>>

\* time passes; a timer that is due fires before the clock moves on (the
\* callback of a timer runs once its time is reached, never before)
AdvanceClock ==
    /\ Idle
    /\ clock < MaxClockSteps * ClockStep
    /\ \A id \in DOMAIN timers : timers[id].active => timers[id].due > clock
    /\ clock' = clock + ClockStep
    /\ UNCHANGED <<intervalId, timers, awaiting, running, tickRejected, lastChecks, runs, settled>>
    /\ UNCHANGED <<pubsubVars, engineVars, planVars, concVars, moduleVars, relayVars>>

\* aw without its k-th element
Without(aw, k) == SubSeq(aw, 1, k - 1) \o SubSeq(aw, k + 1, Len(aw))

\* the await of listPipelines() of one tick resolves; the loop begins
TickListed ==
    /\ Idle
    /\ \E k \in DOMAIN awaiting :
        /\ awaiting' = Without(awaiting, k)
        /\ running' = <<[now |-> awaiting[k], p |-> NoPipeline,
                         first |-> Len(runs), sawBad |-> FALSE]>>
    /\ UNCHANGED <<clock, intervalId, timers, tickRejected, lastChecks, runs, settled>>
    /\ UNCHANGED <<pubsubVars, engineVars, planVars, concVars, moduleVars, relayVars>>

\* one iteration of for (const p of pipelines), p the next element of the list
Iterate(p) ==
    LET r == running[1]
        res == Evaluate(p, r.now, PrevDate(p.schedule, clock), lastChecks)
    IN  /\ lastChecks' = res.lc
        /\ runs' = runs \o res.launched
        /\ IF res.threw
           THEN /\ running' = <<>>
                /\ tickRejected' = TRUE
           ELSE /\ running' = <<[r EXCEPT !.p = p,
                                   !.sawBad = r.sawBad \/ ParseThrows(p.schedule)]>>
                /\ tickRejected' = tickRejected
        /\ UNCHANGED <<clock, intervalId, timers, awaiting, settled>>
        /\ UNCHANGED <<pubsubVars, engineVars, planVars, concVars, moduleVars, relayVars>>

\* the loop is over: the promise of tick() resolves
Resolve ==
    /\ running' = <<>>
    /\ UNCHANGED <<clock, intervalId, timers, awaiting, tickRejected, lastChecks, runs, settled>>
    /\ UNCHANGED <<pubsubVars, engineVars, planVars, concVars, moduleVars, relayVars>>

\* the loop over a directory of at most MaxPipelines pipelines of any schedule
LoopStep ==
    /\ running # <<>>
    /\ \E p \in Pipeline : p.id > running[1].p.id /\ Iterate(p)

TickFinish ==
    /\ running # <<>>
    /\ Resolve

\* the loop over the directory of ManyPipelines pipelines
ManyLoopStep ==
    /\ running # <<>>
    /\ running[1].p.id < ManyPipelines
    /\ Iterate(ManyPipeline(running[1].p.id + 1))

ManyTickFinish ==
    /\ running # <<>>
    /\ running[1].p.id = ManyPipelines
    /\ Resolve

\* a runPipeline promise settles; a rejection goes to the .catch handler,
\* which logs it
RunSettle ==
    /\ Idle
    /\ settled < MaxSettled
    /\ \E k \in DOMAIN runs, outcome \in {"resolved", "rejected"} :
        /\ runs[k].status = "pending"
        /\ runs' = [runs EXCEPT ![k].status = outcome]
    /\ settled' = settled + 1
    /\ UNCHANGED <<clock, intervalId, timers, awaiting, running, tickRejected, lastChecks>>
    /\ UNCHANGED <<pubsubVars, engineVars, planVars, concVars, moduleVars, relayVars>>

--------------------------------------------------------------------------
(* PubSub *)

\* the listener functions, and the events of the bus (SystemEvent)
Listeners == 1..MaxListeners
Events == {"pipelines:changed", "variables:changed"}

\* subscribe(listener): this.listeners.push(listener); the closure returned
\* removes the listener.  A function may be subscribed while it is registered.
Subscribe ==
    /\ running = <<>>
    /\ Len(listeners) < MaxListeners
    /\ Len(unsubs) < MaxSubscribes
    /\ \E l \in Listeners :
        /\ listeners' = Append(listeners, l)
        /\ unsubs' = Append(unsubs, [l |-> l, called |-> FALSE])
    /\ UNCHANGED <<pub, delivered, published>>
    /\ UNCHANGED <<schedVars, engineVars, planVars, concVars, moduleVars, relayVars>>

\* a faulty variant of Filter: removes the first registration only
FilterFirst(ls, listener) ==
    LET F[k \in 0..Len(ls)] ==
            IF k = 0 THEN [out |-> <<>>, found |-> FALSE]
            ELSE IF ls[k] = listener /\ ~F[k - 1].found
                 THEN [F[k - 1] EXCEPT !.found = TRUE]
                 ELSE [F[k - 1] EXCEPT !.out = Append(F[k - 1].out, ls[k])]
    IN  F[Len(ls)].out

\* this.listeners.filter(l => l !== listener)
Filter(ls, listener) ==
    LET F[k \in 0..Len(ls)] ==
            IF k = 0 THEN <<>>
            ELSE IF ls[k] # listener THEN Append(F[k - 1], ls[k]) ELSE F[k - 1]
    IN  F[Len(ls)]

\* a call of a closure subscribe(listener) returned, for the first time or again
Unsubscribe ==
    /\ running = <<>>
    /\ \E c \in DOMAIN unsubs :
        /\ listeners' = Filter(listeners, unsubs[c].l)
        /\ unsubs' = [unsubs EXCEPT ![c].called = TRUE]
    /\ UNCHANGED <<pub, delivered, published>>
    /\ UNCHANGED <<schedVars, engineVars, planVars, concVars, moduleVars, relayVars>>

\* publish(event): this.listeners.forEach(l => l(event)).  forEach reads the
\* length of the array when it is called and visits the indices below it;
\* subscribe only appends to that array and unsubscribe assigns a new array to
\* this.listeners, so the elements visited are those the array held at the call.
Publish ==
    /\ Idle
    /\ published < MaxPublishes
    /\ \E e \in Events :
        pub' = [event |-> e, snapshot |-> listeners, i |-> 1, st |-> "iterating"]
    /\ delivered' = <<>>
    /\ published' = published + 1
    /\ UNCHANGED <<listeners, unsubs>>
    /\ UNCHANGED <<schedVars, engineVars, planVars, concVars, moduleVars, relayVars>>

\* the callback of forEach, l => l(event), for a listener that returns or
\* throws: publish has no try, an exception ends forEach and leaves publish
Call(frame, threw) ==
    IF threw THEN [frame EXCEPT !.st = "threw"] ELSE [frame EXCEPT !.i = frame.i + 1]

\* forEach calls the next listener; between two calls a listener may have
\* subscribed or unsubscribed (Subscribe and Unsubscribe stay enabled)
Deliver ==
    /\ pub.st = "iterating"
    /\ pub.i <= Len(pub.snapshot)
    /\ \E threw \in BOOLEAN :
        /\ delivered' = Append(delivered, [l |-> pub.snapshot[pub.i], event |-> pub.event,
                                           threw |-> threw])
        /\ pub' = Call(pub, threw)
    /\ UNCHANGED <<listeners, unsubs, published>>
    /\ UNCHANGED <<schedVars, engineVars, planVars, concVars, moduleVars, relayVars>>

\* forEach is over and publish returns
PublishReturn ==
    /\ pub.st = "iterating"
    /\ pub.i > Len(pub.snapshot)
    /\ pub' = [pub EXCEPT !.st = "returned"]
    /\ UNCHANGED <<listeners, unsubs, delivered, published>>
    /\ UNCHANGED <<schedVars, engineVars, planVars, concVars, moduleVars, relayVars>>

PubSubNext ==
    \/ Subscribe
    \/ Unsubscribe
    \/ Publish
    \/ Deliver
    \/ PublishReturn

PubSubSpec == Init /\ [][PubSubNext]_vars

--------------------------------------------------------------------------
Next ==
    \/ Start
    \/ TimerFire
    \/ AdvanceClock
    \/ TickListed
    \/ LoopStep
    \/ TickFinish
    \/ RunSettle

Spec == Init /\ [][Next]_vars

\* time passes while no tick awaits its list: listPipelines() resolves at once
ManyAdvanceClock ==
    /\ awaiting = <<>>
    /\ AdvanceClock

\* the scheduler over a directory of ManyPipelines pipelines that is listed
\* at once, so that its ticks never overlap
CapNext ==
    \/ Start
    \/ TimerFire
    \/ ManyAdvanceClock
    \/ TickListed
    \/ ManyLoopStep
    \/ ManyTickFinish

CapSpec == Init /\ [][CapNext]_vars

\* the scheduler over the directory of ManyPipelines pipelines when the
\* listing takes time, so that the tick of the timer is called while the
\* tick of start() still awaits its list, and the runs it launched settle
OverlapNext ==
    \/ Start
    \/ TimerFire
    \/ AdvanceClock
    \/ TickListed
    \/ ManyLoopStep
    \/ ManyTickFinish
    \/ RunSettle

OverlapSpec == Init /\ [][OverlapNext]_vars

\* start() called on a scheduler that was started before: tick() is called,
\* a new timer is armed and intervalId is overwritten with its id
StartAgain ==
    /\ Idle
    /\ timers # <<>>
    /\ Len(timers) < MaxStarts
    /\ awaiting' = TickCall(awaiting)
    /\ timers' = Append(timers, [due |-> clock + TickInterval, active |-> TRUE])
    /\ intervalId' = Len(timers) + 1
    /\ UNCHANGED <<clock, running, tickRejected, lastChecks, runs, settled>>
    /\ UNCHANGED <<pubsubVars, engineVars, planVars, concVars, moduleVars, relayVars>>

\* a scheduler, over an empty directory, whose start() and stop() are called
\* by a user of the class any number of times
StopNext ==
    \/ Start
    \/ StartAgain
    \/ Stop
    \/ TimerFire
    \/ AdvanceClock
    \/ TickListed
    \/ TickFinish

StopSpec == Init /\ [][StopNext]_vars

--------------------------------------------------------------------------
(* The engine: runPipeline(id) of engine.ts.  One call is modelled from its *)
(* start to its return or throw; it suspends at await loadModule(...) and   *)
(* at await mod.run(...).                                                    *)

\* PipelineStep: id?, description?, module; "" is an absent id or description
StepIds == {"", "a", "b"}
Descriptions == {"", "build"}
Modules == {"shell", "nomodule"}
PipelineStep == [id : StepIds, description : Descriptions, module : Modules]

\* pipeline.steps of the pipeline files: loadPipeline parses and checks nothing
StepLists == UNION {[1..n -> PipelineStep] : n \in 0..MaxSteps}

\* loadModule(name): a module, or null when ./modules/<name>.ts does not import
Installed == {"shell"}
loadModule(name) == name \in Installed

\* a faulty variant of stepName: the step is named by its module only
stepModule(step) == step.module

\* const stepName = step.description || step.module
stepName(step) == IF step.description # "" THEN step.description ELSE step.module

\* for (const step of pipeline.steps): the loop is at step k, or is over and
\* runPipeline returns { success: true, ... }
Enter(steps, k) ==
    IF k <= Len(steps) THEN [pc |-> "loadModule", stepNo |-> k]
    ELSE [pc |-> "returned", stepNo |-> k]

\* the step the loop has entered is being loaded
Begin(ss, c) == IF c.pc = "loadModule" THEN [ss EXCEPT ![c.stepNo] = "loading"] ELSE ss

\* a faulty variant of Invoke: mod.run(...) is not awaited and the loop goes on
InvokeNotAwaited(steps, k) == Enter(steps, k + 1)

\* const result = await mod.run(ctx, step.params || {}): the loop waits
Invoke(steps, k) == [pc |-> "run", stepNo |-> k]

\* a faulty variant of Catch: the failure of a step is logged and the loop goes on
CatchAndContinue(steps, k, message) ==
    [pc |-> Enter(steps, k + 1).pc, stepNo |-> k + 1, error |-> NoError]

\* a faulty variant of Catch: the error is rethrown as it is, without the step
CatchUnwrapped(steps, k, message) ==
    [pc |-> "thrown", stepNo |-> k, error |-> [step |-> "", message |-> message]]

\* catch (e) { throw new Error(`Step '${stepName}' failed: ${e.message}`) }
Catch(steps, k, message) ==
    [pc |-> "thrown", stepNo |-> k,
     error |-> [step |-> stepName(steps[k]), message |-> message]]

\* a faulty variant of Assign: the result is stored without the test of step.id
AssignAlways(ctx, step, result) ==
    [results |-> [k \in DOMAIN ctx.results \cup {step.id} |->
                     IF k = step.id THEN result ELSE ctx.results[k]],
     written |-> Append(ctx.written, step.id)]

\* if (step.id) { ctx.results[step.id] = result; }
Assign(ctx, step, result) ==
    IF step.id # ""
    THEN [results |-> [k \in DOMAIN ctx.results \cup {step.id} |->
                          IF k = step.id THEN result ELSE ctx.results[k]],
          written |-> Append(ctx.written, step.id)]
    ELSE ctx

\* a faulty variant of NotFound: the pipeline is used without the test
NotFoundIgnored(p) == FALSE

\* if (!pipeline): loadPipeline returned null (p is whether it returned a pipeline)
NotFound(p) == ~p

\* throw new Error(`Pipeline ${id} not found`)
PipelineNotFound == [step |-> "", message |-> "Pipeline not found"]

\* runPipeline(id) up to its first await in the loop: the pipeline is loaded
\* (or is not found and the call throws), ctx is created with results = {}
\* and workDir = Deno.cwd()
RunPipeline ==
    /\ pc = "idle"
    /\ \E p \in BOOLEAN, steps \in StepLists :
        /\ found' = p
        /\ IF NotFound(p)
           THEN /\ pc' = "thrown"
                /\ error' = PipelineNotFound
                /\ UNCHANGED <<pipeline, stepNo, stepStatus, workDir>>
           ELSE LET c == Enter(steps, 1)
                IN  /\ pipeline' = steps
                    /\ workDir' = Cwd
                    /\ pc' = c.pc
                    /\ stepNo' = c.stepNo
                    /\ stepStatus' = Begin([k \in 1..Len(steps) |-> "pending"], c)
                    /\ error' = NoError
    /\ results' = NoResults
    /\ written' = <<>>
    /\ invoked' = {}
    /\ UNCHANGED dirs
    /\ UNCHANGED <<schedVars, pubsubVars, planVars, concVars, moduleVars, relayVars>>

\* the control of the loop moves to c
Goto(c, ss) ==
    /\ pc' = c.pc
    /\ stepNo' = c.stepNo
    /\ stepStatus' = Begin(ss, c)

\* await loadModule(step.module) returns: a null module throws into the catch,
\* any other has its run called
ModuleLoaded ==
    /\ pc = "loadModule"
    /\ IF loadModule(pipeline[stepNo].module)
       THEN /\ invoked' = invoked \cup {stepNo}
            /\ Goto(Invoke(pipeline, stepNo), [stepStatus EXCEPT ![stepNo] = "running"])
            /\ UNCHANGED error
       ELSE LET c == Catch(pipeline, stepNo, "Module not found")
            IN  /\ Goto(c, [stepStatus EXCEPT ![stepNo] = "failed"])
                /\ error' = c.error
                /\ UNCHANGED invoked
    /\ UNCHANGED <<found, pipeline, results, written, workDir, dirs>>
    /\ UNCHANGED <<schedVars, pubsubVars, planVars, concVars, moduleVars, relayVars>>

\* await mod.run(...) returns a result (modelled as the number of the step
\* that produced it): it is stored and the loop goes to the next step
RunResolved ==
    /\ pc = "run"
    /\ LET ctx == Assign([results |-> results, written |-> written],
                         pipeline[stepNo], stepNo)
       IN  /\ results' = ctx.results
           /\ written' = ctx.written
    /\ Goto(Enter(pipeline, stepNo + 1), [stepStatus EXCEPT ![stepNo] = "succeeded"])
    /\ UNCHANGED <<found, pipeline, invoked, error, workDir, dirs>>
    /\ UNCHANGED <<schedVars, pubsubVars, planVars, concVars, moduleVars, relayVars>>

\* POST /api/run/:id: the result as JSON, or { error: String(e) } with status 500
Response(c, e) ==
    IF c = "returned" THEN [status |-> 200, success |-> TRUE, error |-> NoError]
    ELSE [status |-> 500, success |-> FALSE, error |-> e]

\* await mod.run(...) throws
RunRejected ==
    /\ pc = "run"
    /\ LET c == Catch(pipeline, stepNo, "module error")
       IN  /\ Goto(c, [stepStatus EXCEPT ![stepNo] = "failed"])
           /\ error' = c.error
    /\ UNCHANGED <<found, pipeline, invoked, results, written, workDir, dirs>>
    /\ UNCHANGED <<schedVars, pubsubVars, planVars, concVars, moduleVars, relayVars>>

EngineNext ==
    \/ RunPipeline
    \/ ModuleLoaded
    \/ RunResolved
    \/ RunRejected

EngineSpec == Init /\ [][EngineNext]_vars

--------------------------------------------------------------------------
(* Overlapping calls of runPipeline.  Scheduler.tick does not await the    *)
(* promise of runPipeline and POST /api/run/:id is served while a run is   *)
(* in flight, so the calls of the two callers interleave at their awaits.  *)

\* pipeline.steps of the pipelines run by overlapping calls
ShortLists == UNION {[1..n -> PipelineStep] : n \in 0..MaxConcSteps}

\* a faulty variant of NewCtx: results is one object shared by the calls
NewCtxShared(h) ==
    IF h = <<>> THEN [heap |-> <<NoResults>>, ref |-> 1] ELSE [heap |-> h, ref |-> 1]

\* const ctx = { ..., results: {} }: the object literal creates a new object
NewCtx(h) == [heap |-> Append(h, NoResults), ref |-> Len(h) + 1]

\* runPipeline(id) called by r, up to its first await in the loop
CallRunPipeline ==
    /\ \E r \in Callers, p \in BOOLEAN, steps \in ShortLists :
        /\ calls[r].pc = "idle"
        /\ IF NotFound(p)
           THEN /\ calls' = [calls EXCEPT ![r] =
                                [@ EXCEPT !.pc = "thrown", !.error = PipelineNotFound]]
                /\ UNCHANGED heap
           ELSE LET c == Enter(steps, 1)
                    n == NewCtx(heap)
                IN  /\ calls' = [calls EXCEPT ![r] =
                            [found |-> TRUE, pipeline |-> steps, pc |-> c.pc,
                             stepNo |-> c.stepNo,
                             stepStatus |-> Begin([k \in 1..Len(steps) |-> "pending"], c),
                             error |-> NoError, ctx |-> n.ref]]
                    /\ heap' = n.heap
    /\ UNCHANGED <<schedVars, pubsubVars, engineVars, planVars, moduleVars, relayVars>>

\* the call is at c, the statuses of its steps are ss and it threw e
Moved(call, c, ss, e) ==
    [call EXCEPT !.pc = c.pc, !.stepNo = c.stepNo, !.stepStatus = Begin(ss, c), !.error = e]

\* await loadModule(step.module) returns in the call of r
CallModuleLoaded ==
    /\ \E r \in Callers :
        LET call == calls[r]
        IN  /\ call.pc = "loadModule"
            /\ calls' = [calls EXCEPT ![r] =
                  IF loadModule(call.pipeline[call.stepNo].module)
                  THEN Moved(call, Invoke(call.pipeline, call.stepNo),
                             [call.stepStatus EXCEPT ![call.stepNo] = "running"], NoError)
                  ELSE LET c == Catch(call.pipeline, call.stepNo, "Module not found")
                       IN  Moved(call, c,
                                 [call.stepStatus EXCEPT ![call.stepNo] = "failed"], c.error)]
    /\ UNCHANGED heap
    /\ UNCHANGED <<schedVars, pubsubVars, engineVars, planVars, moduleVars, relayVars>>

\* await mod.run(...) returns a result in the call of r (the result is
\* modelled as the caller and the number of the step that produced it)
CallRunResolved ==
    /\ \E r \in Callers :
        LET call == calls[r]
        IN  /\ call.pc = "run"
            /\ heap' = [heap EXCEPT ![call.ctx] =
                           Assign([results |-> @, written |-> <<>>],
                                  call.pipeline[call.stepNo], <<r, call.stepNo>>).results]
            /\ calls' = [calls EXCEPT ![r] =
                  Moved(call, Enter(call.pipeline, call.stepNo + 1),
                        [call.stepStatus EXCEPT ![call.stepNo] = "succeeded"], NoError)]
    /\ UNCHANGED <<schedVars, pubsubVars, engineVars, planVars, moduleVars, relayVars>>

\* await mod.run(...) throws in the call of r
CallRunRejected ==
    /\ \E r \in Callers :
        LET call == calls[r]
            c == Catch(call.pipeline, call.stepNo, "module error")
        IN  /\ call.pc = "run"
            /\ calls' = [calls EXCEPT ![r] =
                  Moved(call, c, [call.stepStatus EXCEPT ![call.stepNo] = "failed"], c.error)]
    /\ UNCHANGED heap
    /\ UNCHANGED <<schedVars, pubsubVars, engineVars, planVars, moduleVars, relayVars>>

ConcurrentNext ==
    \/ CallRunPipeline
    \/ CallModuleLoaded
    \/ CallRunResolved
    \/ CallRunRejected

ConcurrentSpec == Init /\ [][ConcurrentNext]_vars

--------------------------------------------------------------------------
(* The modules that perform network calls: run of modules/http.ts and of   *)
(* modules/queue.ts, with the cancellation token ctx.signal of the run.    *)

\* params.method || "GET"
Method(m) == IF m = "" THEN "GET" ELSE m

\* params.body ? JSON.stringify(params.body) : undefined, and the header
Body(b) == IF b = "" THEN "" ELSE "{\"body\":\"" \o b \o "\"}"
ContentType(b) == IF b = "" THEN "" ELSE "application/json"

\* the texts of the responses, and try { JSON.parse(text) } catch { text }:
\* the value parsed (modelled as "json:" and the text) or the text itself
Texts == {"{\"ok\":true}", "ok"}
JsonTexts == {"{\"ok\":true}"}
JsonParse(text) == IF text \in JsonTexts THEN "json:" \o text ELSE text

\* what a request in flight rejects with; AbortError only once the signal
\* given to fetch is aborted
NetworkErrors == {"TypeError: error sending request", "AbortError"}
MayReject(e) == e = "AbortError" => aborted

\* a faulty variant of SignalCatch: the error of the request is always rethrown
Rethrow(isAborted, e) == e

\* catch (e) { if (ctx.signal?.aborted) throw new Error("Pipeline stopped by
\* user"); throw e; }
SignalCatch(isAborted, e) == IF isAborted THEN Stopped ELSE e

\* http run(ctx, params) up to await fetch(...)
HttpRun ==
    /\ http.pc = "idle"
    /\ \E m \in {"", "POST"}, b \in {"", "value"} :
        http' = [http EXCEPT !.pc = "fetch", !.method = Method(m), !.body = Body(b),
                             !.contentType = ContentType(b)]
    /\ UNCHANGED <<aborted, queue, msNow, files, ssh>>
    /\ UNCHANGED <<schedVars, pubsubVars, engineVars, planVars, concVars, relayVars>>

\* await fetch(...) resolves with a response
HttpFetchResolves ==
    /\ http.pc = "fetch"
    /\ \E t \in Texts : http' = [http EXCEPT !.pc = "text", !.text = t]
    /\ UNCHANGED <<aborted, queue, msNow, files, ssh>>
    /\ UNCHANGED <<schedVars, pubsubVars, engineVars, planVars, concVars, relayVars>>

\* await res.text() resolves: the body parsed as JSON, or the text, is returned
HttpTextResolves ==
    /\ http.pc = "text"
    /\ http' = [http EXCEPT !.pc = "returned", !.result = JsonParse(http.text)]
    /\ UNCHANGED <<aborted, queue, msNow, files, ssh>>
    /\ UNCHANGED <<schedVars, pubsubVars, engineVars, planVars, concVars, relayVars>>

\* await fetch(...) or await res.text() rejects with e: the catch of run
HttpRejects ==
    /\ http.pc \in {"fetch", "text"}
    /\ \E e \in NetworkErrors :
        /\ MayReject(e)
        /\ http' = [http EXCEPT !.pc = "thrown", !.cause = e, !.abortedThen = aborted,
                                !.error = SignalCatch(aborted, e)]
    /\ UNCHANGED <<aborted, queue, msNow, files, ssh>>
    /\ UNCHANGED <<schedVars, pubsubVars, engineVars, planVars, concVars, relayVars>>

\* params.op and params.provider of a queue step, and the providers of the switch
QueueOps == {"", "publish"}
QueueProviders == {"", "rabbitmq", "kafka"}
KnownProviders == {"rabbitmq", "redis", "sqs", "pubsub"}

\* queue run(ctx, params) up to the await of the handler of the provider
QueueRun ==
    /\ queue.pc = "idle"
    /\ \E op \in QueueOps, provider \in QueueProviders :
        queue' =
            IF op = ""
            THEN [queue EXCEPT !.pc = "thrown", !.error = "Queue module requires 'op' parameter (publish or consume)"]
            ELSE IF provider = ""
            THEN [queue EXCEPT !.pc = "thrown",
                               !.error = "Queue module requires 'provider' parameter"]
            ELSE IF aborted
            THEN [queue EXCEPT !.pc = "thrown", !.abortedThen = TRUE, !.error = Stopped]
            ELSE IF provider \notin KnownProviders
            THEN [queue EXCEPT !.pc = "thrown", !.error = "Unknown queue provider: " \o provider]
            ELSE [queue EXCEPT !.pc = "handling"]
    /\ UNCHANGED <<aborted, http, msNow, files, ssh>>
    /\ UNCHANGED <<schedVars, pubsubVars, engineVars, planVars, concVars, relayVars>>

\* the request of the handler resolves and run returns
QueueResolves ==
    /\ queue.pc = "handling"
    /\ queue' = [queue EXCEPT !.pc = "returned"]
    /\ UNCHANGED <<aborted, http, msNow, files, ssh>>
    /\ UNCHANGED <<schedVars, pubsubVars, engineVars, planVars, concVars, relayVars>>

\* the request of the handler rejects with e: the catch of the handler
QueueRejects ==
    /\ queue.pc = "handling"
    /\ \E e \in NetworkErrors :
        /\ MayReject(e)
        /\ queue' = [queue EXCEPT !.pc = "thrown", !.cause = e, !.abortedThen = aborted,
                                  !.error = SignalCatch(aborted, e)]
    /\ UNCHANGED <<aborted, http, msNow, files, ssh>>
    /\ UNCHANGED <<schedVars, pubsubVars, engineVars, planVars, concVars, relayVars>>

--------------------------------------------------------------------------
(* run of modules/ssh.ts, called for the ssh steps that share one working  *)
(* directory; files is the content of that directory, each key file with   *)
(* the step that wrote it last.                                            *)

\* params.op and whether params.cmd (exec) or source and destination (scp)
\* are given
SshOps == {"", "exec", "scp", "rm"}

\* join(ctx.workDir, `.ssh_key_${Date.now()}`)
KeyPath(ms) == ".ssh_key_" \o ToString(ms)

\* Deno.writeTextFile(keyPath, ...): the file is created or overwritten
WriteTextFile(fs, path, i) == [q \in DOMAIN fs \cup {path} |-> IF q = path THEN i ELSE fs[q]]

\* Deno.remove(keyPath), its error ignored when the file is not there
Remove(fs, path) == [q \in DOMAIN fs \ {path} |-> fs[q]]

\* a faulty variant of Cleanup: the key file is removed only when run returns
CleanupOnReturn(fs, path, pending) == IF pending = "" THEN Remove(fs, path) ELSE fs

\* finally { try { await Deno.remove(keyPath) } catch {} }: whatever run is
\* returning or throwing (pending is the error, "" when it returns)
Cleanup(fs, path, pending) == Remove(fs, path)

\* a millisecond of Date.now() passes
MsPasses ==
    /\ msNow < MaxMs
    /\ msNow' = msNow + 1
    /\ UNCHANGED <<aborted, http, queue, files, ssh>>
    /\ UNCHANGED <<schedVars, pubsubVars, engineVars, planVars, concVars, relayVars>>

\* run(ctx, params) of step i up to await Deno.writeTextFile: the checks of
\* the parameters throw before keyPath is computed
SshRun(i) ==
    /\ ssh[i].pc = "idle"
    /\ \E op \in SshOps, cmd \in BOOLEAN :
        ssh' = [ssh EXCEPT ![i] =
                  IF op = ""
                  THEN [@ EXCEPT !.pc = "thrown",
                                 !.error = "SSH module requires 'op' parameter (exec or scp)"]
                  ELSE [@ EXCEPT !.pc = "writing", !.op = op, !.cmd = cmd,
                                 !.keyPath = KeyPath(msNow)]]
    /\ UNCHANGED <<aborted, http, queue, msNow, files>>
    /\ UNCHANGED <<schedVars, pubsubVars, engineVars, planVars, concVars, relayVars>>

\* await Deno.writeTextFile resolves; Deno.chmod is issued
SshWritten(i) ==
    /\ ssh[i].pc = "writing"
    /\ files' = WriteTextFile(files, ssh[i].keyPath, i)
    /\ ssh' = [ssh EXCEPT ![i] = [@ EXCEPT !.pc = "chmod", !.wrote = TRUE]]
    /\ UNCHANGED <<aborted, http, queue, msNow>>
    /\ UNCHANGED <<schedVars, pubsubVars, engineVars, planVars, concVars, relayVars>>

\* await Deno.chmod settles (it rejects when the file is gone), then the
\* operation is dispatched: executeSSH and executeSCP check their parameters,
\* spawn the process, register abortHandler and set the timeout; any other op
\* throws
SshChmod(i) ==
    /\ ssh[i].pc = "chmod"
    /\ ssh' = [ssh EXCEPT ![i] =
                 IF ssh[i].keyPath \notin DOMAIN files
                 THEN [@ EXCEPT !.pc = "removing", !.pending = "NotFound"]
                 ELSE IF ssh[i].op \notin {"exec", "scp"}
                 THEN [@ EXCEPT !.pc = "removing", !.pending = "Unknown SSH operation: " \o ssh[i].op]
                 ELSE IF ~ssh[i].cmd
                 THEN [@ EXCEPT !.pc = "removing",
                                !.pending = IF ssh[i].op = "exec"
                                            THEN "SSH exec requires 'cmd' parameter"
                                            ELSE "SSH scp requires 'source' parameter"]
                 ELSE [@ EXCEPT !.pc = "process", !.killed = FALSE,
                                !.listening = ~aborted, !.timer = TRUE]]
    /\ UNCHANGED <<aborted, http, queue, msNow, files>>
    /\ UNCHANGED <<schedVars, pubsubVars, engineVars, planVars, concVars, relayVars>>

\* the callback of setTimeout(..., timeout) of step i: the process is killed
SshTimeout(i) ==
    /\ ssh[i].pc = "process"
    /\ ssh[i].timer
    /\ ssh' = [ssh EXCEPT ![i] =
                 IF ssh[i].killed
                 THEN [@ EXCEPT !.timer = FALSE]
                 ELSE [@ EXCEPT !.timer = FALSE, !.killed = TRUE, !.timedOut = TRUE]]
    /\ UNCHANGED <<aborted, http, queue, msNow, files>>
    /\ UNCHANGED <<schedVars, pubsubVars, engineVars, planVars, concVars, relayVars>>

\* await process.status resolves (the process ended or was killed): the
\* timeout is cleared, abortHandler removed, and the step throws "Pipeline
\* stopped by user" if (ctx.signal?.aborted || killed), else returns
SshExit(i) ==
    /\ ssh[i].pc = "process"
    /\ ssh' = [ssh EXCEPT ![i] =
                 [@ EXCEPT !.pc = "removing", !.timer = FALSE, !.listening = FALSE,
                           !.abortedThen = aborted,
                           !.pending = IF aborted \/ ssh[i].killed THEN Stopped ELSE ""]]
    /\ UNCHANGED <<aborted, http, queue, msNow, files>>
    /\ UNCHANGED <<schedVars, pubsubVars, engineVars, planVars, concVars, relayVars>>

\* the finally of run: await Deno.remove(keyPath) settles and run returns or
\* throws what was pending
SshRemoved(i) ==
    /\ ssh[i].pc = "removing"
    /\ files' = Cleanup(files, ssh[i].keyPath, ssh[i].pending)
    /\ ssh' = [ssh EXCEPT ![i] =
                 [@ EXCEPT !.pc = IF ssh[i].pending = "" THEN "returned" ELSE "thrown",
                           !.error = ssh[i].pending]]
    /\ UNCHANGED <<aborted, http, queue, msNow>>
    /\ UNCHANGED <<schedVars, pubsubVars, engineVars, planVars, concVars, relayVars>>

\* stopPipeline aborts the controller of the run: ctx.signal.aborted is set
\* and the abort event calls the abortHandler of every process that listens
Abort ==
    /\ ~aborted
    /\ aborted' = TRUE
    /\ ssh' = [i \in SshSteps |->
                 IF ssh[i].listening
                 THEN [ssh[i] EXCEPT !.listening = FALSE, !.killed = TRUE]
                 ELSE ssh[i]]
    /\ UNCHANGED <<http, queue, msNow, files>>
    /\ UNCHANGED <<schedVars, pubsubVars, engineVars, planVars, concVars, relayVars>>

HttpNext ==
    \/ HttpRun
    \/ HttpFetchResolves
    \/ HttpTextResolves
    \/ HttpRejects
    \/ QueueRun
    \/ QueueResolves
    \/ QueueRejects
    \/ Abort

HttpSpec == Init /\ [][HttpNext]_vars

SshNext ==
    \/ MsPasses
    \/ \E i \in SshSteps :
        \/ SshRun(i)
        \/ SshWritten(i)
        \/ SshChmod(i)
        \/ SshTimeout(i)
        \/ SshExit(i)
        \/ SshRemoved(i)
    \/ Abort

SshSpec == Init /\ [][SshNext]_vars

--------------------------------------------------------------------------
(* server/websocket.ts: the connected clients, their heartbeat timers, the *)
(* system-metrics timer and the listener that relays the events of the bus. *)
(* readyState is "NONE" before the upgrade request of a socket; a timer is *)
(* its position in wsTimers, 0 stands for null and undefined.              *)

\* the module state that cleanupSocket and the loops work on, with the sends
\* of the loop in progress
WsState ==
    [clients |-> wsClients, timers |-> wsTimers, heartbeats |-> heartbeatIntervals,
     metrics |-> systemMetricsInterval, sent |-> <<>>, propagated |-> FALSE]

\* setInterval and clearInterval
SetInterval(ts, kind, s) == Append(ts, [kind |-> kind, socket |-> s, active |-> TRUE])
ClearInterval(ts, id) == [ts EXCEPT ![id].active = FALSE]

\* a faulty variant of startSystemMetricsBroadcast: no test of the timer
StartUnguarded(w) ==
    [w EXCEPT !.timers = SetInterval(w.timers, "metrics", 0), !.metrics = Len(w.timers) + 1]

\* startSystemMetricsBroadcast(): nothing when the timer is set
StartSystemMetricsBroadcast(w) ==
    IF w.metrics # 0
    THEN w
    ELSE [w EXCEPT !.timers = SetInterval(w.timers, "metrics", 0),
                   !.metrics = Len(w.timers) + 1]

\* stopSystemMetricsBroadcast()
StopSystemMetricsBroadcast(w) ==
    IF w.metrics # 0
    THEN [w EXCEPT !.timers = ClearInterval(w.timers, w.metrics), !.metrics = 0]
    ELSE w

\* cleanupSocket(socket)
CleanupSocket(w, s) ==
    LET cleared == IF w.heartbeats[s] # 0
                   THEN [w EXCEPT !.timers = ClearInterval(w.timers, w.heartbeats[s]),
                                  !.heartbeats[s] = 0]
                   ELSE w
        deleted == [cleared EXCEPT !.clients = SelectSeq(cleared.clients, LAMBDA c : c # s)]
    IN  IF deleted.clients = <<>> THEN StopSystemMetricsBroadcast(deleted) ELSE deleted

\* a faulty variant of RelayClient: a client that is not OPEN is left alone
RelayClientKept(w, s, isOpen, throws) ==
    IF isOpen
    THEN IF throws
         THEN CleanupSocket([w EXCEPT !.sent = Append(w.sent, s)], s)
         ELSE [w EXCEPT !.sent = Append(w.sent, s)]
    ELSE w

\* the body of the loop of the relay listener for client s: send inside
\* try/catch when the client is OPEN, cleanupSocket when send throws or the
\* client is not OPEN
RelayClient(w, s, isOpen, throws) ==
    IF isOpen
    THEN IF throws
         THEN CleanupSocket([w EXCEPT !.sent = Append(w.sent, s)], s)
         ELSE [w EXCEPT !.sent = Append(w.sent, s)]
    ELSE CleanupSocket(w, s)

\* for (const client of wsClients): the clients of the Set in insertion
\* order; deleting the client being visited leaves the others to be visited
RECURSIVE RelayLoop(_, _, _)
RelayLoop(w, clients, throwers) ==
    IF clients = <<>> \/ w.propagated
    THEN w
    ELSE RelayLoop(RelayClient(w, Head(clients), readyState[Head(clients)] = "OPEN",
                               Head(clients) \in throwers),
                   Tail(clients), throwers)

InClients(s) == \E k \in DOMAIN wsClients : wsClients[k] = s

\* the connected clients whose readyState is WebSocket.OPEN
OpenClients == {c \in Sockets : InClients(c) /\ readyState[c] = "OPEN"}

\* handleWebSocket(req): without the Upgrade header 400 is answered, else the
\* socket is created and its handlers are set
HandleWebSocket(s) ==
    /\ readyState[s] = "NONE"
    /\ \E upgradeHeader \in {"websocket", "h2c"} :
        readyState' = IF upgradeHeader = "websocket"
                      THEN [readyState EXCEPT ![s] = "CONNECTING"]
                      ELSE readyState
    /\ UNCHANGED <<handled, wsClients, wsTimers, heartbeatIntervals, systemMetricsInterval,
                   metricsPending, relayed, wsPublished>>
    /\ UNCHANGED <<schedVars, pubsubVars, engineVars, planVars, concVars, moduleVars>>

\* the socket opens and socket.onopen runs: the client is added,
\* startSystemMetricsBroadcast() (which calls broadcastSystemMetrics() when
\* it sets the timer), the heartbeat timer is set and recorded; the initial
\* state is then sent inside try/catch
OnOpen(s) ==
    /\ readyState[s] = "CONNECTING"
    /\ systemMetricsInterval = 0 => metricsPending < MaxBroadcasts
    /\ readyState' = [readyState EXCEPT ![s] = "OPEN"]
    /\ LET added == [WsState EXCEPT !.clients = IF InClients(s) THEN @ ELSE Append(@, s)]
           started == StartSystemMetricsBroadcast(added)
       IN  /\ wsClients' = started.clients
           /\ systemMetricsInterval' = started.metrics
           /\ wsTimers' = SetInterval(started.timers, "heartbeat", s)
           /\ heartbeatIntervals' = [started.heartbeats EXCEPT ![s] = Len(started.timers) + 1]
           /\ metricsPending' = IF systemMetricsInterval = 0
                                THEN metricsPending + 1
                                ELSE metricsPending
    /\ UNCHANGED <<handled, relayed, wsPublished>>
    /\ UNCHANGED <<schedVars, pubsubVars, engineVars, planVars, concVars, moduleVars>>

\* the closing handshake of an open socket begins: no handler runs yet
SocketCloses(s) ==
    /\ readyState[s] = "OPEN"
    /\ readyState' = [readyState EXCEPT ![s] = "CLOSING"]
    /\ UNCHANGED <<handled, wsClients, wsTimers, heartbeatIntervals, systemMetricsInterval,
                   metricsPending, relayed, wsPublished>>
    /\ UNCHANGED <<schedVars, pubsubVars, engineVars, planVars, concVars, moduleVars>>

\* cleanupSocket(socket) as called by the handler of event e of socket s
Handler(s, e) ==
    /\ handled' = [handled EXCEPT ![s] = @ \cup {e}]
    /\ readyState' = [readyState EXCEPT ![s] = "CLOSED"]
    /\ LET w == CleanupSocket(WsState, s)
       IN  /\ wsClients' = w.clients
           /\ wsTimers' = w.timers
           /\ heartbeatIntervals' = w.heartbeats
           /\ systemMetricsInterval' = w.metrics
    /\ UNCHANGED <<metricsPending, relayed, wsPublished>>
    /\ UNCHANGED <<schedVars, pubsubVars, engineVars, planVars, concVars, moduleVars>>

\* the socket is closed and socket.onclose runs
OnClose(s) ==
    /\ readyState[s] # "NONE"
    /\ "close" \notin handled[s]
    /\ Handler(s, "close")

\* the connection fails and socket.onerror runs; the close event follows
OnError(s) ==
    /\ readyState[s] # "NONE"
    /\ handled[s] = {}
    /\ Handler(s, "error")

\* the callback of the heartbeat timer of socket s: the ping is sent inside
\* try/catch when the socket is OPEN; cleanupSocket when send throws or the
\* socket is not OPEN
Heartbeat(s) ==
    /\ \E t \in DOMAIN wsTimers :
        wsTimers[t].kind = "heartbeat" /\ wsTimers[t].socket = s /\ wsTimers[t].active
    /\ \E throws \in (IF readyState[s] = "OPEN" THEN BOOLEAN ELSE {FALSE}) :
        LET w == IF readyState[s] = "OPEN" /\ ~throws THEN WsState ELSE CleanupSocket(WsState, s)
        IN  /\ wsClients' = w.clients
            /\ wsTimers' = w.timers
            /\ heartbeatIntervals' = w.heartbeats
            /\ systemMetricsInterval' = w.metrics
    /\ UNCHANGED <<readyState, handled, metricsPending, relayed, wsPublished>>
    /\ UNCHANGED <<schedVars, pubsubVars, engineVars, planVars, concVars, moduleVars>>

\* the callback of a system-metrics timer: broadcastSystemMetrics() returns
\* when there is no client, else awaits getSystemMetrics()
MetricsFire ==
    /\ \E t \in DOMAIN wsTimers : wsTimers[t].kind = "metrics" /\ wsTimers[t].active
    /\ wsClients # <<>> => metricsPending < MaxBroadcasts
    /\ metricsPending' = IF wsClients = <<>> THEN metricsPending ELSE metricsPending + 1
    /\ UNCHANGED <<readyState, handled, wsClients, wsTimers, heartbeatIntervals,
                   systemMetricsInterval, relayed, wsPublished>>
    /\ UNCHANGED <<schedVars, pubsubVars, engineVars, planVars, concVars, moduleVars>>

\* await getSystemMetrics() resolves: the metrics are sent to the OPEN
\* clients inside try/catch; no client is cleaned up here
MetricsSent ==
    /\ metricsPending > 0
    /\ metricsPending' = metricsPending - 1
    /\ UNCHANGED <<readyState, handled, wsClients, wsTimers, heartbeatIntervals,
                   systemMetricsInterval, relayed, wsPublished>>
    /\ UNCHANGED <<schedVars, pubsubVars, engineVars, planVars, concVars, moduleVars>>

\* an event is published on the bus: the listener of websocket.ts sends it to
\* the clients; send throws for the clients of throwers
Relay ==
    /\ wsPublished < MaxRelayed
    /\ wsPublished' = wsPublished + 1
    /\ \E throwers \in SUBSET OpenClients :
        LET w == RelayLoop(WsState, wsClients, throwers)
            open == OpenClients
        IN  /\ wsClients' = w.clients
            /\ wsTimers' = w.timers
            /\ heartbeatIntervals' = w.heartbeats
            /\ systemMetricsInterval' = w.metrics
            /\ relayed' = [event |-> wsPublished + 1,
                           open |-> open,
                           notOpen |-> {c \in Sockets : InClients(c)} \ open,
                           sent |-> w.sent,
                           threw |-> throwers,
                           propagated |-> w.propagated]
    /\ UNCHANGED <<readyState, handled, metricsPending>>
    /\ UNCHANGED <<schedVars, pubsubVars, engineVars, planVars, concVars, moduleVars>>

RelayNext ==
    \/ \E s \in Sockets :
        \/ HandleWebSocket(s)
        \/ OnOpen(s)
        \/ SocketCloses(s)
        \/ OnClose(s)
        \/ OnError(s)
        \/ Heartbeat(s)
    \/ MetricsFire
    \/ MetricsSent
    \/ Relay

RelaySpec == Init /\ [][RelayNext]_vars

--------------------------------------------------------------------------
(* The DAG Resolver and the Run Orchestrator.  The engine that resolves      *)
(* dependsOn and runs parallel groups is declared by the client             *)
(* (client/src/lib/api.ts: PipelineStep.dependsOn, StepItem) and its log is *)
(* parsed by the log viewer, but its code is not among the sources; this    *)
(* part follows the design document (sections 3, 4.1, 4.4 and 5).           *)

\* Step: name ("" is an unnamed step) and dependsOn, a set of step names
StepNames == {"", "a", "b"}
Step == [name : StepNames, dependsOn : SUBSET (StepNames \ {""})]

\* StepItem: a single Step, or a ParallelGroup of Steps
Single(step) == [group |-> FALSE, steps |-> <<step>>]
ParallelGroup(steps) == [group |-> TRUE, steps |-> steps]

\* the steps of a pipeline in declaration order, over all its items
FlatLists == UNION {[1..n -> Step] : n \in 0..MaxPlanSteps}

\* the StepItem list that declares the steps fs with an item boundary after
\* each position of cuts: a lone step is a Single, a longer run a ParallelGroup
ItemNo(cuts, k) == 1 + Cardinality({c \in cuts : c < k})
StepItems(fs, cuts) ==
    [j \in 1..(IF fs = <<>> THEN 0 ELSE Cardinality(cuts) + 1) |->
        LET ks == {k \in DOMAIN fs : ItemNo(cuts, k) = j}
            lo == CHOOSE k \in ks : \A m \in ks : k <= m
            hi == CHOOSE k \in ks : \A m \in ks : m <= k
        IN  IF lo = hi THEN Single(fs[lo]) ELSE ParallelGroup(SubSeq(fs, lo, hi))]

\* each top-level StepItem becomes a stage: a lone Step is a single-step
\* stage, a ParallelGroup a multi-step stage
Stages(its) == [j \in DOMAIN its |-> its[j].steps]

\* the positions <<stage, index>> of the steps of a sequence of stages
Positions(st) == UNION {{<<j, i>> : i \in DOMAIN st[j]} : j \in DOMAIN st}
StepAt(st, pos) == st[pos[1]][pos[2]]

\* the step names of the pipeline
NamesOf(st) == {StepAt(st, pos).name : pos \in Positions(st)} \ {""}

\* a faulty variant of Duplicated: compares the names within each stage only
DuplicatedInStage(st) ==
    \E n \in NamesOf(st) : \E j \in DOMAIN st :
        Cardinality({i \in DOMAIN st[j] : st[j][i].name = n}) > 1

\* a step name is duplicated
Duplicated(st) ==
    \E n \in NamesOf(st) :
        Cardinality({pos \in Positions(st) : StepAt(st, pos).name = n}) > 1

\* a dependsOn name does not exist in the pipeline
Unknown(st) ==
    \E pos \in Positions(st) : StepAt(st, pos).dependsOn \ NamesOf(st) # {}

\* a faulty variant of Earlier: a dependency on a sibling of the stage passes
EarlierOrSame(target, dependent) == target <= dependent

\* a faulty variant of Earlier: only a dependency within the stage is a cycle
NotSame(target, dependent) == target # dependent

\* the topological check of one dependsOn edge over the declared stage order:
\* the target is in an earlier stage than the dependent
Earlier(target, dependent) == target < dependent

\* some dependsOn edge is a back-edge of the declared stage order
BackEdge(st) ==
    \E pos \in Positions(st) : \E d \in StepAt(st, pos).dependsOn \cap NamesOf(st) :
        \E tpos \in Positions(st) :
            StepAt(st, tpos).name = d /\ ~Earlier(tpos[1], pos[1])

\* resolve(steps: StepItem[]) -> ExecutionPlan, or ValidationError
resolve(its) ==
    LET st == Stages(its)
    IN  IF Duplicated(st) \/ Unknown(st) \/ BackEdge(st)
        THEN [ok |-> FALSE, error |-> "ValidationError", stages |-> <<>>]
        ELSE [ok |-> TRUE, error |-> "none", stages |-> st]

\* every step of every stage in state v
AllSteps(st, v) == [j \in DOMAIN st |-> [i \in DOMAIN st[j] |-> v]]

\* an event of the run: start, step-start, step-end or end
Event(type, step, success, err) ==
    [type |-> type, step |-> step, success |-> success, error |-> err]

\* execute(pipeline), Pending -> Running: the plan is resolved, persistence
\* startRun is called and the start event is published; when resolve fails
\* execute fails with its ValidationError and the run never reaches Running
Execute ==
    /\ runState = "Pending"
    /\ execError = "none"
    /\ \E fs \in FlatLists : \E cuts \in SUBSET (1..(Len(fs) - 1)) :
        LET its == StepItems(fs, cuts)
            r == resolve(its)
        IN  /\ items' = its
            /\ IF r.ok
               THEN /\ plan' = r.stages
                    /\ runState' = "Running"
                    /\ runRecord' = "running"
                    /\ stepState' = AllSteps(r.stages, "pending")
                    /\ stepRecords' = AllSteps(r.stages, "none")
                    /\ events' = <<Event("start", <<>>, TRUE, "")>>
                    /\ UNCHANGED execError
               ELSE /\ execError' = r.error
                    /\ UNCHANGED <<plan, runState, runRecord, stepState, stepRecords, events>>
    /\ UNCHANGED <<cancelToken, stageNo, finishCalls, ctxResults>>
    /\ UNCHANGED <<schedVars, pubsubVars, engineVars, concVars, moduleVars, relayVars>>

\* a faulty variant of AwaitAll: the wait ends at the first failure
AwaitAllFailFast(states) ==
    \/ \A i \in DOMAIN states : states[i] \in {"succeeded", "failed"}
    \/ \E i \in DOMAIN states : states[i] = "failed"

\* the Orchestrator awaits all the steps of the stage before advancing
AwaitAll(states) == \A i \in DOMAIN states : states[i] \in {"succeeded", "failed"}

\* a faulty variant of Barrier: the stage dispatched last is not awaited
NoBarrier(no, states) == TRUE

\* the stage numbered no, dispatched last, is over (or none was dispatched yet)
Barrier(no, states) == IF no = 0 THEN TRUE ELSE AwaitAll(states[no])

StageOver == Barrier(stageNo, stepState)

\* a faulty variant of Dispatched: the steps of a stage are run one by one
DispatchedFirst(stage) == {1}

\* for each stage, all its steps are dispatched concurrently
Dispatched(stage) == DOMAIN stage

\* the next stage is dispatched: for each of its steps, in declaration order,
\* startStep is called, step-start is published and the module is invoked
StartStage ==
    /\ runState = "Running"
    /\ StageOver
    /\ stageNo < Len(plan)
    /\ stageNo' = stageNo + 1
    /\ LET d == Dispatched(plan[stageNo + 1])
       IN  /\ stepState' = [stepState EXCEPT ![stageNo + 1] =
                               [i \in DOMAIN @ |-> IF i \in d THEN "running" ELSE @[i]]]
           /\ stepRecords' = [stepRecords EXCEPT ![stageNo + 1] =
                                 [i \in DOMAIN @ |-> IF i \in d THEN "running" ELSE @[i]]]
           /\ events' = events \o
                  SelectSeq([i \in DOMAIN plan[stageNo + 1] |->
                                Event("step-start", <<stageNo + 1, i>>, TRUE, "")],
                            LAMBDA e : e.step[2] \in d)
    /\ UNCHANGED <<items, plan, runState, cancelToken, execError, runRecord, finishCalls,
                   ctxResults>>
    /\ UNCHANGED <<schedVars, pubsubVars, engineVars, concVars, moduleVars, relayVars>>

\* a faulty variant of AfterStep: a failed step does not fail the run
AfterStepIgnored(state, ok) == state

\* a faulty variant of AfterStep: a step that throws fails the run, stopped or not
AfterStepFailed(state, ok) == IF ok THEN state ELSE "Failed"

\* the first step failure within a stage marks the run Failed immediately; a
\* run that is Cancelled stays so when its steps in flight end by throwing
AfterStep(state, ok) == IF ok \/ state # "Running" THEN state ELSE "Failed"

\* on success the result of the step is written into results under its name
\* (the result is modelled as the position of the step)
Write(res, step, result) ==
    IF step.name # ""
    THEN [n \in DOMAIN res \cup {step.name} |-> IF n = step.name THEN result ELSE res[n]]
    ELSE res

\* what a module in flight throws: modules/http.ts rethrows the error of its
\* request, as "Pipeline stopped by user" when ctx.signal is aborted
ModuleThrows(isAborted) == IF isAborted THEN "Pipeline stopped by user" ELSE "module error"

\* a step in flight ends: endStep is called with the outcome, step-end is
\* published and, on success, the result is written into RunContext.results
StepEnd ==
    /\ \E pos \in Positions(plan) : \E ok \in BOOLEAN :
        /\ stepState[pos[1]][pos[2]] = "running"
        /\ stepState' = [stepState EXCEPT ![pos[1]][pos[2]] =
                            IF ok THEN "succeeded" ELSE "failed"]
        /\ stepRecords' = [stepRecords EXCEPT ![pos[1]][pos[2]] =
                              IF ok THEN "success" ELSE "fail"]
        /\ events' = Append(events, Event("step-end", pos, ok,
                                          IF ok THEN "" ELSE ModuleThrows(cancelToken)))
        /\ ctxResults' = IF ok THEN Write(ctxResults, StepAt(plan, pos), pos) ELSE ctxResults
        /\ runState' = AfterStep(runState, ok)
    /\ UNCHANGED <<items, plan, cancelToken, execError, stageNo, runRecord, finishCalls>>
    /\ UNCHANGED <<schedVars, pubsubVars, engineVars, concVars, moduleVars, relayVars>>

\* stopPipeline(id) while the run is Running: the cancellation token of the
\* run is signalled and the run transitions to Cancelled
StopPipeline ==
    /\ runState = "Running"
    /\ cancelToken' = TRUE
    /\ runState' = "Cancelled"
    /\ UNCHANGED <<items, plan, execError, stageNo, stepState, stepRecords, runRecord,
                   finishCalls, ctxResults, events>>
    /\ UNCHANGED <<schedVars, pubsubVars, engineVars, concVars, moduleVars, relayVars>>

\* an internal error of the engine, outside any step, fails the run
EngineError ==
    /\ runState = "Running"
    /\ runState' = "Failed"
    /\ UNCHANGED <<items, plan, cancelToken, execError, stageNo, stepState, stepRecords,
                   runRecord, finishCalls, ctxResults, events>>
    /\ UNCHANGED <<schedVars, pubsubVars, engineVars, concVars, moduleVars, relayVars>>

\* a faulty variant of Outcome: the outcome is decided by the step failures alone
OutcomeOfSteps(state) == IF state = "Failed" THEN "Failed" ELSE "Success"

\* the final state of a run that ends in state: Running ends in Success
Outcome(state) == IF state = "Running" THEN "Success" ELSE state

\* the status finishRun is called with
Status(state) ==
    IF state = "Success" THEN "success" ELSE IF state = "Failed" THEN "fail" ELSE "cancelled"

\* a faulty variant of FinishRun: the record is finalized on the success path only
FinishRunOnSuccess(rec, status) ==
    IF status = "success" THEN [record |-> status, calls |-> rec.calls + 1] ELSE rec

\* persistence finishRun(runRecordId, status, ...), called on any terminal transition
FinishRun(rec, status) == [record |-> status, calls |-> rec.calls + 1]

\* execute has published the end event of the run
Ended == events # <<>> /\ events[Len(events)].type = "end"

\* the terminal transition: after the last stage, or after the stage in which
\* the run failed or was cancelled, finishRun is called with the status and
\* end is published
Finish ==
    /\ runState \in {"Running", "Failed", "Cancelled"}
    /\ ~Ended
    /\ StageOver
    /\ runState = "Running" => stageNo = Len(plan)
    /\ runState' = Outcome(runState)
    /\ LET rec == FinishRun([record |-> runRecord, calls |-> finishCalls],
                            Status(Outcome(runState)))
       IN  /\ runRecord' = rec.record
           /\ finishCalls' = rec.calls
    /\ events' = Append(events, Event("end", <<>>, runState = "Running", ""))
    /\ UNCHANGED <<items, plan, cancelToken, execError, stageNo, stepState, stepRecords,
                   ctxResults>>
    /\ UNCHANGED <<schedVars, pubsubVars, engineVars, concVars, moduleVars, relayVars>>

PlanNext ==
    \/ Execute
    \/ StartStage
    \/ StepEnd
    \/ StopPipeline
    \/ EngineError
    \/ Finish

PlanSpec == Init /\ [][PlanNext]_vars

--------------------------------------------------------------------------
(* Properties of the scheduler *)

\* a step in which the loop of tick evaluated one pipeline and went on; the
\* pipeline is running'[1].p
Iterated == running # <<>> /\ running' # <<>> /\ running'[1].p.id > running[1].p.id

\* the schedule can be evaluated
Evaluable(p) == p.schedule # NoSchedule /\ p.schedule # BadSchedule

\* the promise runPipeline returns for (id, instant), not settled
Pending(id, instant) == [id |-> id, instant |-> instant, status |-> "pending"]

\* the position in runs of the last launch for a key: the insertion of the
\* entry lastChecks holds for it
InsertedAt(key) ==
    CHOOSE k \in DOMAIN runs :
        /\ Key(runs[k].id, runs[k].instant) = key
        /\ \A j \in DOMAIN runs : Key(runs[j].id, runs[j].instant) = key => j <= k

\* C1: a (pipelineId, scheduledInstant) pair causes runPipeline to be
\* triggered at most once, however many other keys are recorded between two
\* ticks that both see the instant inside the 70-second window.
C1_AtMostOncePerInstant ==
    \A i, j \in DOMAIN runs :
        (runs[i].id = runs[j].id /\ runs[i].instant = runs[j].instant) => i = j

\* C2: in a tick, a pipeline with a schedule whose most recent instant prev has
\* 0 <= now - prev < 70000 and whose key is not recorded is triggered exactly
\* once and its key is recorded; a pipeline whose prev is 70000 ms or more
\* before now is not triggered.
C2_DueTriggeredOnce ==
    [][Iterated =>
        LET p == running'[1].p
            prev == PrevDate(p.schedule, clock)
            diff == running[1].now - prev
        IN  Evaluable(p) =>
              /\ (0 <= diff /\ diff < 70000 /\ ~Has(lastChecks, Key(p.id, prev)))
                    => /\ runs' = Append(runs, Pending(p.id, prev))
                       /\ Has(lastChecks', Key(p.id, prev))
              /\ diff >= 70000 => (runs' = runs /\ lastChecks' = lastChecks)]_vars

\* C2's case: a tick called at 70000 has triggered a pipeline whose instant is
\* 10 s old and has then passed over one whose instant is exactly 70000 ms old
C2_Witness ==
    /\ running # <<>>
    /\ Evaluable(running[1].p)
    /\ running[1].now - PrevDate(running[1].p.schedule, clock) = 70000
    /\ Len(runs) = running[1].first + 1
    /\ runs[Len(runs)].instant = 60000
    /\ ~Has(lastChecks, Key(running[1].p.id, 0))

\* C3: a pipeline whose schedulePaused flag is set is never triggered by tick.
C3_PausedNeverTriggered ==
    [][(Iterated /\ running'[1].p.schedulePaused) => runs' = runs]_vars

\* C4: ticks do not overlap: at most one execution of tick is in progress
\* (called and not finished) at any time.
C4_TicksDoNotOverlap == Len(awaiting) + Len(running) <= 1

\* C5: within one tick, a pipeline whose schedule cannot be parsed is not
\* triggered and records no key, the tick goes on, and the pipelines after it
\* are triggered exactly when they are due and not recorded.
C5_BadScheduleSkipped ==
    [][/\ running # <<>> => ~tickRejected'
       /\ (running # <<>> /\ running' = <<>>) => UNCHANGED <<lastChecks, runs>>
       /\ Iterated =>
            LET p == running'[1].p
                prev == PrevDate(p.schedule, clock)
                diff == running[1].now - prev
            IN  /\ p.schedule = BadSchedule =>
                      (running'[1].sawBad /\ UNCHANGED <<lastChecks, runs>>)
                /\ (running[1].sawBad /\ Evaluable(p)) =>
                      IF 0 <= diff /\ diff < 70000 /\ ~Has(lastChecks, Key(p.id, prev))
                      THEN /\ runs' = Append(runs, Pending(p.id, prev))
                           /\ lastChecks' = Append(lastChecks, Key(p.id, prev))
                      ELSE UNCHANGED <<lastChecks, runs>>]_vars

\* C5's case: in one loop a pipeline was triggered, then a pipeline with a bad
\* schedule was passed over, then a third pipeline was triggered
C5_Witness ==
    /\ running # <<>>
    /\ running[1].sawBad
    /\ Len(runs) = running[1].first + 2
    /\ runs[Len(runs)].id = running[1].p.id
    /\ runs[Len(runs) - 1].id + 1 < running[1].p.id

\* C6: tick finishes without waiting for a run it triggered: when its promise
\* resolves every run it launched is still pending; a run that rejected
\* neither makes a tick reject nor keeps a later due pipeline from being
\* triggered.
C6_FireAndForget ==
    [][/\ (running # <<>> /\ running' = <<>>) =>
            /\ ~tickRejected'
            /\ \A k \in (running[1].first + 1)..Len(runs') : runs'[k].status = "pending"
       /\ (Iterated /\ \E k \in DOMAIN runs : runs[k].status = "rejected") =>
            LET p == running'[1].p
                prev == PrevDate(p.schedule, clock)
                diff == running[1].now - prev
            IN  (Evaluable(p) /\ 0 <= diff /\ diff < 70000
                    /\ ~Has(lastChecks, Key(p.id, prev)))
                  => Len(runs') = Len(runs) + 1]_vars

\* C6's case: a run launched by an earlier tick has rejected, and the loop of a
\* later tick has since launched two runs, both pending
C6_Witness ==
    /\ running # <<>>
    /\ Len(runs) = running[1].first + 2
    /\ \E k \in 1..running[1].first : runs[k].status = "rejected"
    /\ \A k \in (running[1].first + 1)..Len(runs) : runs[k].status = "pending"

\* C7: after every insertion step of every tick the number of recorded
\* trigger keys is at most 100.
C7_KeySetBounded == Len(lastChecks) <= 100

\* C7's case: more than 100 keys were inserted and 100 are recorded
C7_Witness == Len(runs) > 100 /\ Len(lastChecks) = 100

\* C8: when inserting a key makes the set exceed its cap, exactly one key is
\* evicted, the one inserted earliest among those present, never the key just
\* inserted.
C8_EvictsOldest ==
    [][(Len(runs') = Len(runs) + 1 /\ Len(lastChecks) = 100) =>
        LET new == Key(runs'[Len(runs')].id, runs'[Len(runs')].instant)
            old == lastChecks[1]
        IN  /\ \A k \in 2..Len(lastChecks) : InsertedAt(old) < InsertedAt(lastChecks[k])
            /\ Len(lastChecks') = 100
            /\ ~Has(lastChecks', old)
            /\ \A k \in 2..Len(lastChecks) : Has(lastChecks', lastChecks[k])
            /\ Has(lastChecks', new)]_vars

\* C8's case: the 101st insertion evicted the key of the first and kept its own
C8_Witness ==
    /\ Len(runs) = 101
    /\ ~Has(lastChecks, Key(runs[1].id, runs[1].instant))
    /\ Has(lastChecks, Key(runs[2].id, runs[2].instant))
    /\ Has(lastChecks, Key(runs[101].id, runs[101].instant))

\* C33: with two overlapping executions of Scheduler.tick (the second
\* starting while the first is still awaiting listPipelines), a given
\* (pipelineId, scheduledInstant) is still triggered at most once: the loop
\* of a tick during whose wait the timer started another tick launches no
\* pair that has been launched already.
C33_OverlappingTicksTriggerOnce ==
    [][(/\ running # <<>>
        /\ intervalId # 0
        /\ timers[intervalId].due > running[1].now + TickInterval)
       => \A j \in DOMAIN runs' \ DOMAIN runs : \A i \in DOMAIN runs :
             Key(runs'[j].id, runs'[j].instant) # Key(runs[i].id, runs[i].instant)]_vars

\* C34: the trigger key is recorded before the run is launched and is never
\* removed because the run failed or the pipeline could not be loaded, so a
\* scheduled instant whose run rejected is not triggered again by a later
\* tick inside the 70-second window: no step launches a pair whose run has
\* rejected.
C34_RejectedNotTriggeredAgain ==
    [][\A i \in DOMAIN runs :
          runs[i].status = "rejected" =>
              \A j \in DOMAIN runs' \ DOMAIN runs :
                  Key(runs'[j].id, runs'[j].instant) # Key(runs[i].id, runs[i].instant)]_vars

\* C35: after Scheduler.stop() returns, the timer of the scheduler starts no
\* further tick, also when start() was called more than once before stop():
\* while the timer stop() cleared is the one intervalId names, no callback of
\* any timer of the scheduler runs.
C35_NoTickAfterStop ==
    [][(intervalId # 0 /\ ~timers[intervalId].active /\ intervalId' = intervalId) =>
          \A id \in DOMAIN timers : timers'[id].due = timers[id].due]_vars

--------------------------------------------------------------------------
(* Properties of PubSub *)

\* C9: publish delivers the event, before it returns, exactly once to every
\* listener registered when it was called, in subscription order.
C9_DeliveredOnceInOrder ==
    pub.st \in {"returned", "threw"} =>
        /\ Len(delivered) = Len(pub.snapshot)
        /\ \A k \in DOMAIN delivered :
            delivered[k].l = pub.snapshot[k] /\ delivered[k].event = pub.event

\* C10: if a listener throws, every listener subscribed after it still
\* receives the event and the exception does not propagate out of publish.
C10_ListenerFailureContained ==
    \A k \in DOMAIN delivered :
        delivered[k].threw =>
            /\ pub.st # "threw"
            /\ pub.st = "returned" =>
                \A j \in (k + 1)..Len(pub.snapshot) :
                    j <= Len(delivered) /\ delivered[j].l = pub.snapshot[j]

\* every entry of ls other than listener, in the order of ls
Others(ls, listener) == SelectSeq(ls, LAMBDA x : x # listener)

\* whether listener is registered in ls
Registered(ls, listener) == \E k \in DOMAIN ls : ls[k] = listener

\* the first call of a closure removes its listener from the array and keeps
\* every other listener registered, in the same relative order
FirstCallRemoves ==
    \A c \in DOMAIN unsubs :
        (~unsubs[c].called /\ unsubs'[c].called) =>
            listeners' = Others(listeners, unsubs[c].l)

\* a publish delivers to the listeners registered when it is called, in
\* their order, and to no other
DeliversToRegistered ==
    /\ published' = published + 1 => pub'.snapshot = listeners
    /\ \A k \in DOMAIN delivered' : delivered'[k].l = pub'.snapshot[k]

--------------------------------------------------------------------------
(* Properties of the engine *)

\* the steps of the run that have reached a terminal state
Terminal(k) == stepStatus[k] \in {"succeeded", "failed"}

\* C12: stages execute strictly in plan order: no step of stage N+1 is started
\* before every step of stage N has reached a terminal state (succeeded or
\* failed), in every run.  The loop of runPipeline makes each step a stage.
C12_StagesInPlanOrder ==
    \A k \in DOMAIN stepStatus :
        stepStatus[k] # "pending" => \A j \in 1..(k - 1) : Terminal(j)

\* C12's case: the second step is running, after the first
C12_Witness ==
    /\ Len(pipeline) >= 2
    /\ stepStatus[1] = "succeeded"
    /\ stepStatus[2] = "running"

\* C13: after a step fails, no step of any later stage is ever started in that
\* run: with steps [A, B] and A failing, B's module is never invoked and the
\* run's error names step A.
C13_NothingStartsAfterFailure ==
    \A k \in DOMAIN stepStatus :
        stepStatus[k] = "failed" =>
            /\ \A j \in (k + 1)..Len(pipeline) :
                stepStatus[j] = "pending" /\ j \notin invoked
            /\ pc = "thrown"
            /\ error.step = (IF pipeline[k].description # "" THEN pipeline[k].description
                             ELSE pipeline[k].module)
            /\ error.message \in {"Module not found", "module error"}

\* C13's case: steps [A, B], the module of A ran and threw, the run has thrown
C13_Witness ==
    /\ Len(pipeline) = 2
    /\ stepStatus[1] = "failed"
    /\ 1 \in invoked
    /\ pipeline[1].description = "build"
    /\ pipeline[2].description = ""
    /\ pc = "thrown"

C16_ResultsWriteOnce ==
    \A i, j \in DOMAIN written : i # j => written[i] # written[j]

\* the call of runPipeline is over
Over == pc \in {"returned", "thrown"}

\* C27: runPipeline called with an id for which loadPipeline returns null
\* fails with a pipeline-not-found error before any module is loaded or
\* invoked, any event is published or any run record is created.
C27_NotFoundBeforeAnything ==
    (pc # "idle" /\ ~found) =>
        /\ pc = "thrown"
        /\ error.message = "Pipeline not found"
        /\ stepStatus = <<>>
        /\ invoked = {}
        /\ results = NoResults
        /\ workDir = ""
        /\ events = <<>>
        /\ runRecord = "none"

\* C27's case: loadPipeline returned null and runPipeline threw
C27_Witness == pc = "thrown" /\ ~found

\* what the thrown error says of step k: its name (description, else module)
\* and the reason of its failure
NamesFailedStep(e, k) ==
    /\ stepStatus[k] = "failed"
    /\ e.step = (IF pipeline[k].description # "" THEN pipeline[k].description
                 ELSE pipeline[k].module)
    /\ e.message \in {"Module not found", "module error"}

\* C28 as stated: runPipeline has exactly two outcomes for the caller: it
\* returns a RunOutcome with success true only when every step of the
\* pipeline completed successfully, or it rejects with an error that names
\* the step that failed and its reason; it never returns a success outcome
\* after a step failure.
C28_TwoOutcomes ==
    /\ pc = "returned" =>
        /\ Response(pc, error).success
        /\ \A k \in DOMAIN pipeline : stepStatus[k] = "succeeded"
    /\ pc = "thrown" =>
        /\ Response(pc, error).status = 500
        /\ stepNo \in DOMAIN pipeline
        /\ NamesFailedStep(Response(pc, error).error, stepNo)

\* C28 amended: a third outcome is the rejection of a pipeline that was not
\* found, whose error names no step.
C28_ThreeOutcomes ==
    /\ pc = "returned" =>
        /\ found
        /\ Response(pc, error).success
        /\ \A k \in DOMAIN pipeline : stepStatus[k] = "succeeded"
    /\ pc = "thrown" =>
        /\ Response(pc, error).status = 500
        /\ IF found
           THEN /\ stepNo \in DOMAIN pipeline
                /\ NamesFailedStep(Response(pc, error).error, stepNo)
                /\ \A k \in DOMAIN pipeline : stepStatus[k] = "failed" => k = stepNo
           ELSE Response(pc, error).error = [step |-> "", message |-> "Pipeline not found"]

\* C28's case: the second step of a pipeline threw after the first succeeded
C28_Witness ==
    /\ pc = "thrown"
    /\ found
    /\ Len(pipeline) = 2
    /\ stepStatus[1] = "succeeded"
    /\ error.message = "module error"

\* C29: for a pipeline without keepWorkDir, the working directory of the run
\* created at context build is deleted on every exit path of the run (normal
\* completion, step failure, cancellation).
C29_WorkDirDeleted ==
    (Over /\ found) => workDir \notin dirs

--------------------------------------------------------------------------
(* Properties of overlapping calls of runPipeline *)

\* the steps of the call of r whose module was looked for and is missing
Unresolved(r) ==
    {k \in DOMAIN calls[r].pipeline :
        /\ calls[r].pipeline[k].module \notin Installed
        /\ calls[r].stepStatus[k] \notin {"pending", "loading"}}

\* C26: when the module of a step cannot be resolved (loadModule returns
\* null because the module is missing, fails to import, or exports no run
\* function), only that step fails: the failure carries the name of the
\* step, runPipeline rejects instead of crashing the process, and other runs
\* in flight continue unaffected.
C26_MissingModuleFailsItsStep ==
    /\ [](\A r \in Callers : \A k \in Unresolved(r) :
            /\ calls[r].stepStatus[k] = "failed"
            /\ \A j \in DOMAIN calls[r].pipeline : calls[r].stepStatus[j] = "failed" => j = k
            /\ calls[r].pc = "thrown"
            /\ calls[r].error.message = "Module not found"
            /\ calls[r].error.step =
                   (IF calls[r].pipeline[k].description # ""
                    THEN calls[r].pipeline[k].description
                    ELSE calls[r].pipeline[k].module))
    /\ [][\A r \in Callers :
            (calls[r].pc = "loadModule" /\ calls'[r].pc = "thrown") =>
                /\ heap' = heap
                /\ \A o \in Callers \ {r} : calls'[o] = calls[o]]_vars

\* C26's case: the module of a described step of one call is missing and the
\* call threw, while the other call, begun before it, has a step running
C26_Witness ==
    \E r, o \in Callers :
        /\ r # o
        /\ \E k \in Unresolved(r) : calls[r].pipeline[k].description # ""
        /\ calls[o].pc = "run"
        /\ calls[o].ctx < calls[r].ctx

\* C30: RunContext is private to one run: when two runs execute concurrently
\* (of different pipelines or of the same pipeline), a result written by a
\* step of one run is never visible in the results of the other run, under
\* any interleaving of their steps.
C30_ResultsPrivate ==
    \A r \in Callers :
        calls[r].ctx # 0 =>
            \A k \in DOMAIN heap[calls[r].ctx] : heap[calls[r].ctx][k][1] = r

\* C30's case: two calls run the same pipeline; the one that began last
\* has stored the result of step "a" while the step "a" of the other is running
C30_Witness ==
    \E r, o \in Callers :
        /\ r # o
        /\ calls[r].pipeline = calls[o].pipeline
        /\ calls[r].ctx < calls[o].ctx
        /\ calls[r].pc = "run"
        /\ calls[r].pipeline[calls[r].stepNo].id = "a"
        /\ "a" \in DOMAIN heap[calls[o].ctx]

--------------------------------------------------------------------------
(* Properties of the DAG Resolver and the Run Orchestrator *)

\* the state and the step of a position of the plan
StateAt(pos) == stepState[pos[1]][pos[2]]
PlanStep(pos) == plan[pos[1]][pos[2]]

\* the positions <<item, index>> of the declared steps, and the step of one
Declared == UNION {{<<j, i>> : i \in DOMAIN items[j].steps} : j \in DOMAIN items}
DeclaredStep(pos) == items[pos[1]].steps[pos[2]]

\* the items that declare a step named n
DeclaredIn(n) == {pos[1] : pos \in {q \in Declared : DeclaredStep(q).name = n}}

\* execute has been called
Executed == execError # "none" \/ runState # "Pending"

\* nothing of a run exists: no event, no record, no step invoked, no result
NothingExecuted ==
    /\ runState = "Pending"
    /\ events = <<>>
    /\ runRecord = "none"
    /\ stepState = <<>>
    /\ stepRecords = <<>>
    /\ finishCalls = 0
    /\ ctxResults = NoResults

\* two declared steps have the same name; a dependsOn names no declared step
DuplicateName ==
    \E p, q \in Declared :
        p # q /\ DeclaredStep(p).name # "" /\ DeclaredStep(p).name = DeclaredStep(q).name
UnknownDependsOn ==
    \E p \in Declared : \E d \in DeclaredStep(p).dependsOn : DeclaredIn(d) = {}

\* the graph of (stage order plus dependsOn) over the items: <<t, j>> says
\* that item t has to be over before item j starts
Before ==
    {<<j, j + 1>> : j \in 1..(Len(items) - 1)} \cup
    UNION {UNION {{<<t, p[1]>> : t \in DeclaredIn(d)} : d \in DeclaredStep(p).dependsOn} :
              p \in Declared}

\* the pairs of R and those joined by two pairs of R; k such steps from R
Compose(R) == R \cup {<<q[1][1], q[2][2]>> : q \in {c \in R \X R : c[1][2] = c[2][1]}}
RECURSIVE Closure(_, _)
Closure(R, k) == IF k = 0 THEN R ELSE Closure(Compose(R), k - 1)

\* the graph has a cycle: some item has to be over before it starts
Cyclic == \E e \in Closure(Before, Len(items)) : e[1] = e[2]

\* the steps of a sequence of sequences of steps, in order
Flatten(ss) ==
    LET F[k \in 0..Len(ss)] == IF k = 0 THEN <<>> ELSE F[k - 1] \o ss[k]
    IN  F[Len(ss)]

ForwardDependsOn ==
    \E p \in Declared : \E d \in DeclaredStep(p).dependsOn :
        \E t \in DeclaredIn(d) : t >= p[1]

--------------------------------------------------------------------------
(* Properties of the run state machine, the run record and the event stream *)

\* the final states of a run
Final == {"Success", "Failed", "Cancelled"}

\* the indices of the events of one type, and of one type and step
EventsOf(type) == {k \in DOMAIN events : events[k].type = type}
StepEvents(type, pos) == {k \in EventsOf(type) : events[k].step = pos}

--------------------------------------------------------------------------
(* Properties of the modules *)

\* C31: when the request in flight of the http module fails, run fails with
\* "Pipeline stopped by user" if the cancellation token is signalled by then,
\* and rethrows the error of the request unchanged if it is not; the queue
\* module reports cancellation with the same failure and no other.
C31_CancellationDistinguished ==
    /\ http.pc = "thrown" =>
          http.error = (IF http.abortedThen THEN "Pipeline stopped by user" ELSE http.cause)
    /\ (queue.pc = "thrown" /\ queue.cause # "") =>
          queue.error = (IF queue.abortedThen THEN "Pipeline stopped by user" ELSE queue.cause)
    /\ (queue.pc = "thrown" /\ queue.error = "Pipeline stopped by user") => queue.abortedThen

\* the request failed for a reason of its own after the token was signalled,
\* and run failed as stopped by the user
C31_Witness ==
    /\ http.pc = "thrown"
    /\ http.abortedThen
    /\ http.cause = "TypeError: error sending request"
    /\ http.error = "Pipeline stopped by user"

\* the request failed and the token was not signalled
C31_WitnessRethrown ==
    /\ http.pc = "thrown"
    /\ ~http.abortedThen
    /\ http.error = "TypeError: error sending request"

\* C32: the exec operation of the ssh module fails with "Pipeline stopped by
\* user" only when the cancellation token of the run was signalled; a process
\* killed by the timeout of the module, with no stop requested, is not
\* reported as a cancellation by the user.
C32_StoppedOnlyWhenCancelled ==
    \A i \in SshSteps :
        (ssh[i].pc = "thrown" /\ ssh[i].op = "exec" /\ ssh[i].error = "Pipeline stopped by user")
            => ssh[i].abortedThen

\* C36: the key file that run of the ssh module writes is removed on every
\* exit path: once the run of a step has returned or thrown, no key file
\* written by that step remains in the working directory.
C36_KeyFileRemoved ==
    \A i \in SshSteps :
        ssh[i].pc \in {"returned", "thrown"} => \A q \in DOMAIN files : files[q] # i

\* a step that wrote its key file threw (stopped, timed out or unknown op)
\* while the other step returned
C36_Witness ==
    \E i, j \in SshSteps :
        /\ ssh[i].pc = "thrown" /\ ssh[i].wrote /\ ssh[i].op = "rm"
        /\ ssh[j].pc = "thrown" /\ ssh[j].wrote /\ ssh[j].error = "Pipeline stopped by user"

\* a step returned after its process ended
C36_WitnessReturned ==
    \E i \in SshSteps : ssh[i].pc = "returned" /\ ssh[i].wrote

\* C37: two ssh steps that share the working directory never use the same
\* key file: while the process of a step runs, its key file is there and is
\* the one that step wrote, whatever the instants at which the steps start.
C37_KeyFilesNotShared ==
    \A i \in SshSteps :
        ssh[i].pc = "process" =>
            /\ ssh[i].keyPath \in DOMAIN files
            /\ files[ssh[i].keyPath] = i

--------------------------------------------------------------------------
(* Properties of the WebSocket relay *)

\* C38: every event published on the bus is sent exactly once to every
\* client that is OPEN at publish time and to no other; a client found not
\* OPEN, or whose send throws, is removed from the connected set with its
\* heartbeat timer cleared; no failure of send propagates to the publisher.
C38_RelayOnceAndCleanup ==
    relayed.event # 0 =>
        /\ \A c \in relayed.open :
              Cardinality({k \in DOMAIN relayed.sent : relayed.sent[k] = c}) = 1
        /\ \A k \in DOMAIN relayed.sent : relayed.sent[k] \in relayed.open
        /\ \A c \in relayed.notOpen \cup relayed.threw :
              /\ ~InClients(c)
              /\ heartbeatIntervals[c] = 0
              /\ \A t \in DOMAIN wsTimers :
                    (wsTimers[t].kind = "heartbeat" /\ wsTimers[t].socket = c)
                        => ~wsTimers[t].active
        /\ ~relayed.propagated

\* an event was relayed while one connected client was not OPEN and the
\* send to another, OPEN, threw
C38_Witness ==
    /\ relayed.event # 0
    /\ relayed.notOpen # {}
    /\ relayed.threw # {}
    /\ relayed.sent # <<>>

\* the send to the first of two OPEN clients threw and the second was served
C38_WitnessBoth ==
    /\ Len(relayed.sent) = 2
    /\ relayed.sent[1] \in relayed.threw
    /\ InClients(relayed.sent[2])

\* C39: after any interleaving of open, close, error, heartbeat failure and
\* cleanup by the relay, the system-metrics timer is active exactly when the
\* connected set is not empty, and at most one such timer is active.
C39_MetricsTimerIffClients ==
    LET active == {t \in DOMAIN wsTimers : wsTimers[t].kind = "metrics" /\ wsTimers[t].active}
    IN  /\ Cardinality(active) = (IF wsClients = <<>> THEN 0 ELSE 1)
        /\ active = (IF systemMetricsInterval = 0 THEN {} ELSE {systemMetricsInterval})

\* the connected set emptied and the timer was stopped, then a client
\* opened and a second timer was started
C39_Witness ==
    /\ Len(wsClients) >= 1
    /\ \E t, u \in DOMAIN wsTimers :
        /\ t < u
        /\ wsTimers[t].kind = "metrics" /\ ~wsTimers[t].active
        /\ wsTimers[u].kind = "metrics" /\ wsTimers[u].active

======================================================================
